---- MODULE Spec2Model ----
(***************************************************************************)
(* A model of the expiring key-value cache of cache.go: the entry store    *)
(* (sync.Map), the item counter, the eviction hook, the janitor and every  *)
(* public operation, each as one action that models the whole handler.     *)
(*                                                                         *)
(* Integer widths are scaled: an int64 timestamp or duration has TimeBits  *)
(* bits, a stored int64 value has WordBits bits and the uint32             *)
(* counter has CounterBits bits.  All arithmetic wraps at these widths the *)
(* way Go's fixed-width arithmetic wraps at 64 and 32 bits.  float32 and   *)
(* float64 values and the other integer kinds repeat the code shape of     *)
(* int64 and are left out.                                                 *)
(***************************************************************************)
EXTENDS Integers, Sequences, FiniteSets, Bags, TLC

VARIABLES
    defaultExpiration,  \* cache.defaultExpiration
    items,              \* cache.items: key -> Item, a key absent when not stored
    counter,            \* cache.counter
    onEvicted,          \* cache.onEvicted, Nil or a registered hook
    janitor,            \* "none", "running" or "stopped"
    now,                \* the clock, time.Now().UnixNano()
    ret,                \* what the last operation returned to its caller
    hookCalls,          \* bag of the <<key, value>> the last operation passed to the hook
    panicked,           \* a runtime panic has aborted the program
    procs               \* the goroutines of a concurrent run: where each one is in its call

vars == <<defaultExpiration, items, counter, onEvicted, janitor, now, ret,
          hookCalls, panicked, procs>>

----------------------------------------------------------------------------
(* Bounds of the model. *)

MaxNow == 3
WordBits == 2
TimeBits == 4
CounterBits == 1

(* Program constants. *)

NoExpiration == -1
DefaultExpiration == 0

----------------------------------------------------------------------------
(* Fixed-width arithmetic. *)

WrapSigned(x, bits) ==
    LET r == x % (2 ^ bits)
    IN  IF r >= 2 ^ (bits - 1) THEN r - 2 ^ bits ELSE r

WrapUnsigned(x, bits) == x % (2 ^ bits)

MaxInt64 == 2 ^ (TimeBits - 1) - 1

(* Values an entry can hold: Object is interface{}, here a kind and a payload. *)

NilObject == [kind |-> "nil", v |-> 0]
Int64(n) == [kind |-> "int64", v |-> n]
String(s) == [kind |-> "string", v |-> s]

Keys == {"a", "b"}
Nil == "nil"
Hooks == {"hook"}

(* The calls the model makes: key "a" is stored with an int64 number and every *)
(* kind of duration, a duration of MaxInt64 nanoseconds included; key "b"     *)
(* with a string and a duration of one tick or none.                          *)
InputObjects(k) == IF k = "a" THEN {Int64(1)} ELSE {String(0)}
Durations(k) ==
    IF k = "a" THEN {NoExpiration, DefaultExpiration, 1, MaxInt64}
    ELSE {NoExpiration, 1}
Deltas == {1}

Item(x, e) == [Object |-> x, Expiration |-> e]

----------------------------------------------------------------------------
(* Item.Expired *)
Expired(item) ==
    IF item.Expiration = 0 THEN FALSE ELSE now > item.Expiration

(* time.Now().Add(d).UnixNano(): the sum in int64 nanoseconds. *)
UnixNanoAfter(d) == WrapSigned(now + d, TimeBits)

(* The expiration Set and set compute from the duration. *)
Expiry(d) ==
    LET dd == IF d = DefaultExpiration THEN defaultExpiration ELSE d
    IN  IF dd > 0 THEN UnixNanoAfter(dd) ELSE 0

(* sync.Map Load, Store, Delete *)
Loaded(k) == k \in DOMAIN items
Stored(m, k, v) == [x \in (DOMAIN m) \cup {k} |-> IF x = k THEN v ELSE m[x]]
Deleted(m, ks) == [x \in (DOMAIN m) \ ks |-> m[x]]

Inc(c, n) == WrapUnsigned(c + n, CounterBits)
Dec(c, n) == WrapUnsigned(c - n, CounterBits)

(* safeStore that counts a key only when it is new to the store. *)
safeStore_countsNewKeys(k, v) ==
    /\ items' = Stored(items, k, v)
    /\ counter' = IF Loaded(k) THEN counter ELSE Inc(counter, 1)

safeStore(k, v) ==
    /\ items' = Stored(items, k, v)
    /\ counter' = Inc(counter, 1)

safeDelete(k) ==
    /\ items' = Deleted(items, {k})
    /\ counter' = Dec(counter, 1)

(* The map Items returns: m is declared and never made, a nil map, which reads *)
(* as the empty map.                                                          *)
NilMap == <<>>

NoRet == [op |-> "new", key |-> "", found |-> FALSE, val |-> NilObject,
          err |-> "", hasExp |-> FALSE, exp |-> 0, n |-> 0, m |-> NilMap]

Returns(r) ==
    /\ ret' = r
    /\ UNCHANGED <<defaultExpiration, janitor, now, panicked, procs>>

NoHook == hookCalls' = EmptyBag

----------------------------------------------------------------------------
(* get that takes a stored entry for found without looking at its expiry. *)
get_ignoresExpiry(k) ==
    IF ~Loaded(k) THEN [Object |-> NilObject, found |-> FALSE]
    ELSE [Object |-> items[k].Object, found |-> TRUE]

(* cache.get *)
get(k) ==
    IF ~Loaded(k) THEN [Object |-> NilObject, found |-> FALSE]
    ELSE IF items[k].Expiration > 0 /\ now > items[k].Expiration
         THEN [Object |-> NilObject, found |-> FALSE]
         ELSE [Object |-> items[k].Object, found |-> TRUE]

(* set that keeps the expiration of the entry it overwrites. *)
set_keepsExpiration(k, x, d) ==
    safeStore(k, Item(x, IF Loaded(k) THEN items[k].Expiration ELSE Expiry(d)))

(* cache.set *)
set(k, x, d) == safeStore(k, Item(x, Expiry(d)))

(* The store, counter and hook effect of cache.Set. *)
SetEffect(k, x, d) ==
    /\ safeStore(k, Item(x, Expiry(d)))
    /\ UNCHANGED onEvicted
    /\ NoHook

Set(k, x, d) ==
    /\ SetEffect(k, x, d)
    /\ Returns([NoRet EXCEPT !.op = "Set", !.key = k])

Add(k, x, d) ==
    IF get(k).found
    THEN /\ UNCHANGED <<items, counter, onEvicted>>
         /\ NoHook
         /\ Returns([NoRet EXCEPT !.op = "Add", !.key = k, !.err = "AlreadyExists"])
    ELSE /\ set(k, x, d)
         /\ UNCHANGED onEvicted
         /\ NoHook
         /\ Returns([NoRet EXCEPT !.op = "Add", !.key = k])

(* Replace that stores before it looks whether the key was there. *)
Replace_storesFirst(k, x, d) ==
    /\ set(k, x, d)
    /\ UNCHANGED onEvicted
    /\ NoHook
    /\ Returns([NoRet EXCEPT !.op = "Replace", !.key = k,
                             !.err = IF get(k).found THEN "" ELSE "NotFound"])

Replace(k, x, d) ==
    IF ~get(k).found
    THEN /\ UNCHANGED <<items, counter, onEvicted>>
         /\ NoHook
         /\ Returns([NoRet EXCEPT !.op = "Replace", !.key = k, !.err = "NotFound"])
    ELSE /\ set(k, x, d)
         /\ UNCHANGED onEvicted
         /\ NoHook
         /\ Returns([NoRet EXCEPT !.op = "Replace", !.key = k])

(* Get that takes an entry for expired from the instant of its expiry on. *)
GetRet_inclusive(k) ==
    IF ~Loaded(k) THEN [Object |-> NilObject, found |-> FALSE]
    ELSE IF items[k].Expiration > 0 /\ now >= items[k].Expiration
         THEN [Object |-> NilObject, found |-> FALSE]
         ELSE [Object |-> items[k].Object, found |-> TRUE]

(* What cache.Get returns. *)
GetRet(k) ==
    IF ~Loaded(k) THEN [Object |-> NilObject, found |-> FALSE]
    ELSE IF items[k].Expiration > 0 /\ now > items[k].Expiration
         THEN [Object |-> NilObject, found |-> FALSE]
         ELSE [Object |-> items[k].Object, found |-> TRUE]

(* Get that deletes the expired entry it comes upon. *)
Get_reclaims(k) ==
    /\ IF Loaded(k) /\ ~GetRet(k).found
       THEN safeDelete(k)
       ELSE UNCHANGED <<items, counter>>
    /\ UNCHANGED onEvicted
    /\ NoHook
    /\ Returns([NoRet EXCEPT !.op = "Get", !.key = k,
                             !.found = GetRet(k).found, !.val = GetRet(k).Object])

Get(k) ==
    /\ UNCHANGED <<items, counter, onEvicted>>
    /\ NoHook
    /\ Returns([NoRet EXCEPT !.op = "Get", !.key = k,
                             !.found = GetRet(k).found, !.val = GetRet(k).Object])

(* What cache.GetWithExpiration returns. *)
GetWithExpirationRet(k) ==
    IF ~Loaded(k)
    THEN [Object |-> NilObject, hasExp |-> FALSE, exp |-> 0, found |-> FALSE]
    ELSE IF items[k].Expiration > 0
         THEN IF now > items[k].Expiration
              THEN [Object |-> NilObject, hasExp |-> FALSE, exp |-> 0, found |-> FALSE]
              ELSE [Object |-> items[k].Object, hasExp |-> TRUE,
                    exp |-> items[k].Expiration, found |-> TRUE]
         ELSE [Object |-> items[k].Object, hasExp |-> FALSE, exp |-> 0, found |-> TRUE]

GetWithExpiration(k) ==
    /\ UNCHANGED <<items, counter, onEvicted>>
    /\ NoHook
    /\ LET r == GetWithExpirationRet(k)
       IN  Returns([NoRet EXCEPT !.op = "GetWithExpiration", !.key = k,
                                 !.found = r.found, !.val = r.Object,
                                 !.hasExp = r.hasExp, !.exp = r.exp])

----------------------------------------------------------------------------
(* The typed forms: IncrementInt64 and DecrementInt64. *)

IncrementInt64(k, n) ==
    IF ~Loaded(k) \/ Expired(items[k])
    THEN /\ UNCHANGED <<items, counter, onEvicted>>
         /\ NoHook
         /\ Returns([NoRet EXCEPT !.op = "IncrementInt64", !.key = k, !.err = "NotFound"])
    ELSE IF items[k].Object.kind # "int64"
    THEN /\ UNCHANGED <<items, counter, onEvicted>>
         /\ NoHook
         /\ Returns([NoRet EXCEPT !.op = "IncrementInt64", !.key = k, !.err = "TypeMismatch"])
    ELSE LET nv == WrapSigned(items[k].Object.v + n, WordBits)
         IN  /\ safeStore(k, [items[k] EXCEPT !.Object = Int64(nv)])
             /\ UNCHANGED onEvicted
             /\ NoHook
             /\ Returns([NoRet EXCEPT !.op = "IncrementInt64", !.key = k, !.val = Int64(nv)])

(* DecrementInt64 that stops at the least int64 where the code wraps. *)
DecrementInt64_saturates(k, n) ==
    IF ~Loaded(k) \/ Expired(items[k])
    THEN /\ UNCHANGED <<items, counter, onEvicted>>
         /\ NoHook
         /\ Returns([NoRet EXCEPT !.op = "DecrementInt64", !.key = k, !.err = "NotFound"])
    ELSE IF items[k].Object.kind # "int64"
    THEN /\ UNCHANGED <<items, counter, onEvicted>>
         /\ NoHook
         /\ Returns([NoRet EXCEPT !.op = "DecrementInt64", !.key = k, !.err = "TypeMismatch"])
    ELSE LET least == 0 - 2 ^ (WordBits - 1)
             nv == IF items[k].Object.v - n < least THEN least ELSE items[k].Object.v - n
         IN  /\ safeStore(k, [items[k] EXCEPT !.Object = Int64(nv)])
             /\ UNCHANGED onEvicted
             /\ NoHook
             /\ Returns([NoRet EXCEPT !.op = "DecrementInt64", !.key = k, !.val = Int64(nv)])

DecrementInt64(k, n) ==
    IF ~Loaded(k) \/ Expired(items[k])
    THEN /\ UNCHANGED <<items, counter, onEvicted>>
         /\ NoHook
         /\ Returns([NoRet EXCEPT !.op = "DecrementInt64", !.key = k, !.err = "NotFound"])
    ELSE IF items[k].Object.kind # "int64"
    THEN /\ UNCHANGED <<items, counter, onEvicted>>
         /\ NoHook
         /\ Returns([NoRet EXCEPT !.op = "DecrementInt64", !.key = k, !.err = "TypeMismatch"])
    ELSE LET nv == WrapSigned(items[k].Object.v - n, WordBits)
         IN  /\ safeStore(k, [items[k] EXCEPT !.Object = Int64(nv)])
             /\ UNCHANGED onEvicted
             /\ NoHook
             /\ Returns([NoRet EXCEPT !.op = "DecrementInt64", !.key = k, !.val = Int64(nv)])

(* The generic forms dispatch on the stored value's type and return no value. *)

Increment(k, n) ==
    IF ~Loaded(k) \/ Expired(items[k])
    THEN /\ UNCHANGED <<items, counter, onEvicted>>
         /\ NoHook
         /\ Returns([NoRet EXCEPT !.op = "Increment", !.key = k, !.err = "NotFound"])
    ELSE IF items[k].Object.kind = "int64"
    THEN /\ safeStore(k, [items[k] EXCEPT
                 !.Object = Int64(WrapSigned(items[k].Object.v + n, WordBits))])
         /\ UNCHANGED onEvicted
         /\ NoHook
         /\ Returns([NoRet EXCEPT !.op = "Increment", !.key = k])
    ELSE /\ UNCHANGED <<items, counter, onEvicted>>
         /\ NoHook
         /\ Returns([NoRet EXCEPT !.op = "Increment", !.key = k, !.err = "TypeMismatch"])

Decrement(k, n) ==
    IF ~Loaded(k) \/ Expired(items[k])
    THEN /\ UNCHANGED <<items, counter, onEvicted>>
         /\ NoHook
         /\ Returns([NoRet EXCEPT !.op = "Decrement", !.key = k, !.err = "NotFound"])
    ELSE IF items[k].Object.kind = "int64"
    THEN /\ safeStore(k, [items[k] EXCEPT
                 !.Object = Int64(WrapSigned(items[k].Object.v - n, WordBits))])
         /\ UNCHANGED onEvicted
         /\ NoHook
         /\ Returns([NoRet EXCEPT !.op = "Decrement", !.key = k])
    ELSE /\ UNCHANGED <<items, counter, onEvicted>>
         /\ NoHook
         /\ Returns([NoRet EXCEPT !.op = "Decrement", !.key = k, !.err = "TypeMismatch"])

----------------------------------------------------------------------------
(* delete that reports an eviction whenever a hook is registered. *)
deleteRet_reportsAbsent(k) ==
    IF onEvicted # Nil
    THEN [Object |-> IF Loaded(k) THEN items[k].Object ELSE NilObject, evicted |-> TRUE]
    ELSE [Object |-> NilObject, evicted |-> FALSE]

(* cache.delete: the removed value and whether the hook is to be told. *)
deleteRet(k) ==
    IF onEvicted # Nil /\ Loaded(k)
    THEN [Object |-> items[k].Object, evicted |-> TRUE]
    ELSE [Object |-> NilObject, evicted |-> FALSE]

Delete(k) ==
    /\ safeDelete(k)
    /\ hookCalls' = IF deleteRet(k).evicted
                    THEN SetToBag({<<k, deleteRet(k).Object>>})
                    ELSE EmptyBag
    /\ UNCHANGED onEvicted
    /\ Returns([NoRet EXCEPT !.op = "Delete", !.key = k])

(* A sweep that compares the clock with the expiration of every entry, the *)
(* entries without expiration included.                                    *)
ExpiredKeys_dropsGuard ==
    { k \in DOMAIN items : now > items[k].Expiration }

(* The keys the Range of DeleteExpired finds expired. *)
ExpiredKeys ==
    { k \in DOMAIN items : items[k].Expiration > 0 /\ now > items[k].Expiration }

(* The store, counter and hook effect of one DeleteExpired pass: every     *)
(* expired key goes through delete, and the hook is then called with each  *)
(* pair delete reported as evicted.                                        *)
DeleteExpiredEffect ==
    /\ items' = Deleted(items, ExpiredKeys)
    /\ counter' = Dec(counter, Cardinality(ExpiredKeys))
    /\ hookCalls' = SetToBag({ <<k, deleteRet(k).Object>> :
                                 k \in { x \in ExpiredKeys : deleteRet(x).evicted } })
    /\ UNCHANGED onEvicted

DeleteExpired ==
    /\ DeleteExpiredEffect
    /\ Returns([NoRet EXCEPT !.op = "DeleteExpired"])

OnEvicted(f) ==
    /\ onEvicted' = f
    /\ UNCHANGED <<items, counter>>
    /\ NoHook
    /\ Returns([NoRet EXCEPT !.op = "OnEvicted"])

(* The keys whose entry Items copies into its result map. *)
ItemsCopied ==
    { k \in DOMAIN items : ~(items[k].Expiration > 0 /\ now > items[k].Expiration) }

(* Items: the result map m is declared and never made, so it is nil; the   *)
(* first copy into it is an assignment to an entry of a nil map, a runtime *)
(* panic.  With nothing to copy the nil (empty) map is returned.           *)
Items ==
    /\ UNCHANGED <<items, counter, onEvicted, defaultExpiration, janitor, now, procs>>
    /\ NoHook
    /\ IF ItemsCopied # {}
       THEN /\ panicked' = TRUE
            /\ ret' = [NoRet EXCEPT !.op = "Items", !.err = "panic"]
       ELSE /\ panicked' = FALSE
            /\ ret' = [NoRet EXCEPT !.op = "Items"]

ItemCount ==
    /\ UNCHANGED <<items, counter, onEvicted>>
    /\ NoHook
    /\ Returns([NoRet EXCEPT !.op = "ItemCount", !.n = counter])

(* Flush that leaves the entries that have not expired. *)
Flush_keepsUnexpired ==
    /\ items' = Deleted(items, ExpiredKeys)
    /\ counter' = Dec(counter, Cardinality(ExpiredKeys))
    /\ UNCHANGED onEvicted
    /\ NoHook
    /\ Returns([NoRet EXCEPT !.op = "Flush"])

Flush ==
    /\ items' = Deleted(items, DOMAIN items)
    /\ counter' = Dec(counter, Cardinality(DOMAIN items))
    /\ UNCHANGED onEvicted
    /\ NoHook
    /\ Returns([NoRet EXCEPT !.op = "Flush"])

----------------------------------------------------------------------------
(* The janitor goroutine: a tick of its ticker runs DeleteExpired, a value *)
(* on its stop channel ends it.                                            *)

JanitorSweep ==
    /\ janitor = "running"
    /\ DeleteExpiredEffect
    /\ Returns([NoRet EXCEPT !.op = "janitor"])

stopJanitor ==
    /\ janitor = "running"
    /\ janitor' = "stopped"
    /\ ret' = [NoRet EXCEPT !.op = "stopJanitor"]
    /\ NoHook
    /\ UNCHANGED <<defaultExpiration, items, counter, onEvicted, now, panicked, procs>>

(* newCache: a default of zero is stored as -1. *)
newCache(de) == IF de = 0 THEN -1 ELSE de

(* newCacheWithJanitor: the janitor runs when the cleanup interval is positive. *)
newJanitor(ci) == IF ci > 0 THEN "running" ELSE "none"

(* The goroutines of a concurrent run: main, which calls the store before  *)
(* it starts the others, two callers that make one call each, and the      *)
(* janitor.  A goroutine is at a place in its call (pc) with the locals of *)
(* that call; the store runs in the sequential specification with all of   *)
(* them idle.                                                              *)
Main == "main"
Janitor == "janitor"
Callers == {"c1", "c2"}
Procs == {Main, Janitor} \cup Callers

Idle == [pc |-> "idle", op |-> "", k |-> "", x |-> NilObject, e |-> 0, d |-> 0,
         t |-> 0, ev |-> FALSE, todo |-> {}, evicted |-> <<>>, res |-> ""]

(* The stores the model builds: New(0, 0), New(NoExpiration, 0), New(1, 1). *)
Configs == {<<0, 0>>, <<NoExpiration, 0>>, <<1, 1>>}

Init ==
    /\ \E c \in Configs :
         /\ defaultExpiration = newCache(c[1])
         /\ janitor = newJanitor(c[2])
    /\ items = <<>>
    /\ counter = 0
    /\ onEvicted = Nil
    /\ now = 1
    /\ ret = NoRet
    /\ hookCalls = EmptyBag
    /\ panicked = FALSE
    /\ procs = [p \in Procs |-> Idle]

(* The clock advances. *)
Tick ==
    /\ now < MaxNow
    /\ now' = now + 1
    /\ ret' = [NoRet EXCEPT !.op = "Tick"]
    /\ NoHook
    /\ UNCHANGED <<defaultExpiration, items, counter, onEvicted, janitor, panicked, procs>>

(* A panic ends the program: no operation runs after it. *)
Alive == ~panicked

Next ==
    \/ \E k \in Keys : \E x \in InputObjects(k), d \in Durations(k) : Alive /\ Set(k, x, d)
    \/ \E k \in Keys : \E x \in InputObjects(k), d \in Durations(k) : Alive /\ Add(k, x, d)
    \/ \E k \in Keys : \E x \in InputObjects(k), d \in Durations(k) : Alive /\ Replace(k, x, d)
    \/ \E k \in Keys : Alive /\ Get(k)
    \/ \E k \in Keys : Alive /\ GetWithExpiration(k)
    \/ \E k \in Keys, n \in Deltas : Alive /\ IncrementInt64(k, n)
    \/ \E k \in Keys, n \in Deltas : Alive /\ DecrementInt64(k, n)
    \/ \E k \in Keys, n \in Deltas : Alive /\ Increment(k, n)
    \/ \E k \in Keys, n \in Deltas : Alive /\ Decrement(k, n)
    \/ \E k \in Keys : Alive /\ Delete(k)
    \/ Alive /\ DeleteExpired
    \/ \E f \in Hooks \cup {Nil} : Alive /\ OnEvicted(f)
    \/ Alive /\ Items
    \/ Alive /\ ItemCount
    \/ Alive /\ Flush
    \/ Alive /\ JanitorSweep
    \/ Alive /\ stopJanitor
    \/ Alive /\ Tick

Spec == Init /\ [][Next]_vars

----------------------------------------------------------------------------
(* Concurrent runs.  The methods take no lock: the goroutines share the    *)
(* sync.Map, the atomic counter and the field c.onEvicted.  A step below   *)
(* is one access to the sync.Map, with the counter update that follows it  *)
(* in safeStore and safeDelete, or one read or write of c.onEvicted, with  *)
(* the local computation around it; no step reads the counter.  ret keeps  *)
(* its value and hookCalls gathers every call of the hook of the run.      *)

(* The key the goroutines work on and the durations they store it with. *)
ConcKeys == {"a"}
ConcDurations == {NoExpiration, 1}

(* The values Set stores: main the value of the sequential runs, a caller  *)
(* another one, so that a stored value tells who stored it.                *)
ConcObjects(p) == IF p = Main THEN InputObjects("a") ELSE {Int64(0)}

(* The calls a goroutine makes. *)
Ops(p) ==
    IF p = Main THEN {"Set", "OnEvicted"}
    ELSE IF p = "c1" THEN {"Set", "Add", "IncrementInt64", "Delete"}
    ELSE IF p = "c2" THEN {"Add", "IncrementInt64", "DeleteExpired", "OnEvicted"}
    ELSE {}

At(p, pc) == procs[p].pc = pc

(* main calls only while no other goroutine has begun a call. *)
CanCall(p, op) ==
    /\ At(p, "idle")
    /\ op \in Ops(p)
    /\ p = Main => \A q \in Procs : At(q, "idle")

Goto(p, r) == procs' = [procs EXCEPT ![p] = r]

(* The call of p has returned: a caller keeps what it got, main and the     *)
(* janitor are ready for their next call.                                   *)
Finish(p, op, res) ==
    IF p \in Callers THEN [Idle EXCEPT !.pc = "done", !.op = op, !.res = res]
    ELSE Idle

(* cache.Set: one Store. *)
SetCall(p, k, x, d) ==
    /\ CanCall(p, "Set")
    /\ safeStore(k, Item(x, Expiry(d)))
    /\ Goto(p, Finish(p, "Set", ""))
    /\ UNCHANGED <<defaultExpiration, onEvicted, janitor, now, ret, hookCalls, panicked>>

(* cache.OnEvicted: one write of c.onEvicted. *)
OnEvictedCall(p, f) ==
    /\ CanCall(p, "OnEvicted")
    /\ onEvicted' = f
    /\ Goto(p, Finish(p, "OnEvicted", ""))
    /\ UNCHANGED <<defaultExpiration, items, counter, janitor, now, ret, hookCalls, panicked>>

(* cache.Add, first half: c.get(k), and the return when it found the key. *)
AddGet(p, k, x, d) ==
    /\ CanCall(p, "Add")
    /\ IF get(k).found
       THEN Goto(p, Finish(p, "Add", "AlreadyExists"))
       ELSE Goto(p, [Idle EXCEPT !.pc = "set", !.op = "Add", !.k = k, !.x = x, !.d = d])
    /\ UNCHANGED <<defaultExpiration, items, counter, onEvicted, janitor, now, ret,
                   hookCalls, panicked>>

(* AddSet that looks again and gives way to an entry stored since its get. *)
AddSet_looksAgain(p) ==
    /\ At(p, "set")
    /\ IF get(procs[p].k).found
       THEN /\ UNCHANGED <<items, counter>>
            /\ Goto(p, Finish(p, "Add", "AlreadyExists"))
       ELSE /\ set(procs[p].k, procs[p].x, procs[p].d)
            /\ Goto(p, Finish(p, "Add", ""))
    /\ UNCHANGED <<defaultExpiration, onEvicted, janitor, now, ret, hookCalls, panicked>>

(* cache.Add, second half: c.set(k, x, d) and return nil. *)
AddSet(p) ==
    /\ At(p, "set")
    /\ set(procs[p].k, procs[p].x, procs[p].d)
    /\ Goto(p, Finish(p, "Add", ""))
    /\ UNCHANGED <<defaultExpiration, onEvicted, janitor, now, ret, hookCalls, panicked>>

(* cache.IncrementInt64, first half: Load, the checks and the sum. *)
IncrementInt64Load(p, k, n) ==
    /\ CanCall(p, "IncrementInt64")
    /\ IF ~Loaded(k) \/ Expired(items[k])
       THEN Goto(p, Finish(p, "IncrementInt64", "NotFound"))
       ELSE IF items[k].Object.kind # "int64"
       THEN Goto(p, Finish(p, "IncrementInt64", "TypeMismatch"))
       ELSE Goto(p, [Idle EXCEPT !.pc = "store", !.op = "IncrementInt64", !.k = k,
                                 !.x = Int64(WrapSigned(items[k].Object.v + n, WordBits)),
                                 !.e = items[k].Expiration])
    /\ UNCHANGED <<defaultExpiration, items, counter, onEvicted, janitor, now, ret,
                   hookCalls, panicked>>

(* IncrementInt64Store that adds to the value the entry holds when it stores. *)
IncrementInt64Store_addsInPlace(p) ==
    /\ At(p, "store")
    /\ LET k == procs[p].k
           v == IF Loaded(k) /\ items[k].Object.kind = "int64"
                THEN items[k].Object.v ELSE 0
       IN  safeStore(k, Item(Int64(WrapSigned(v + 1, WordBits)), procs[p].e))
    /\ Goto(p, Finish(p, "IncrementInt64", ""))
    /\ UNCHANGED <<defaultExpiration, onEvicted, janitor, now, ret, hookCalls, panicked>>

(* cache.IncrementInt64, second half: safeStore of the item with the sum. *)
IncrementInt64Store(p) ==
    /\ At(p, "store")
    /\ safeStore(procs[p].k, Item(procs[p].x, procs[p].e))
    /\ Goto(p, Finish(p, "IncrementInt64", ""))
    /\ UNCHANGED <<defaultExpiration, onEvicted, janitor, now, ret, hookCalls, panicked>>

(* cache.Delete is called: c.delete(k) comes next. *)
DeleteCall(p, k) ==
    /\ CanCall(p, "Delete")
    /\ Goto(p, [Idle EXCEPT !.pc = "load", !.op = "Delete", !.k = k])
    /\ UNCHANGED <<defaultExpiration, items, counter, onEvicted, janitor, now, ret,
                   hookCalls, panicked>>

(* cache.DeleteExpired is called: it reads the clock, the Range comes next. *)
DeleteExpiredCall(p) ==
    /\ CanCall(p, "DeleteExpired")
    /\ Goto(p, [Idle EXCEPT !.pc = "range", !.op = "DeleteExpired", !.t = now,
                            !.todo = ConcKeys])
    /\ UNCHANGED <<defaultExpiration, items, counter, onEvicted, janitor, now, ret,
                   hookCalls, panicked>>

(* A janitor whose ticker goes on firing after the stop was taken. *)
JanitorTick_afterStop ==
    /\ janitor # "none"
    /\ At(Janitor, "idle")
    /\ Goto(Janitor, [Idle EXCEPT !.pc = "range", !.op = "janitor", !.t = now,
                                  !.todo = ConcKeys])
    /\ UNCHANGED <<defaultExpiration, items, counter, onEvicted, janitor, now, ret,
                   hookCalls, panicked>>

(* A janitor that reads the clock once, when Run starts, and not in each pass. *)
JanitorTick_readsClockOnce ==
    /\ janitor = "running"
    /\ At(Janitor, "idle")
    /\ Goto(Janitor, [Idle EXCEPT !.pc = "range", !.op = "janitor", !.t = 1,
                                  !.todo = ConcKeys])
    /\ UNCHANGED <<defaultExpiration, items, counter, onEvicted, janitor, now, ret,
                   hookCalls, panicked>>

(* janitor.Run: the ticker fires and the janitor calls DeleteExpired. *)
JanitorTick ==
    /\ janitor = "running"
    /\ At(Janitor, "idle")
    /\ Goto(Janitor, [Idle EXCEPT !.pc = "range", !.op = "janitor", !.t = now,
                                  !.todo = ConcKeys])
    /\ UNCHANGED <<defaultExpiration, items, counter, onEvicted, janitor, now, ret,
                   hookCalls, panicked>>

(* Where p goes once c.delete has returned, or the Range has passed a key: *)
(* to the next key of the Range, to the calls of the hook, or out.         *)
AfterDelete(p, r) ==
    IF r.todo # {}
    THEN [r EXCEPT !.pc = "range", !.k = "", !.x = NilObject, !.ev = FALSE]
    ELSE IF r.evicted # <<>>
    THEN [r EXCEPT !.pc = "hook", !.k = "", !.x = NilObject, !.ev = FALSE]
    ELSE Finish(p, r.op, "")

(* DeleteExpired: the Range comes to a key.  A key that is not stored is   *)
(* not visited; an expired entry goes to c.delete.                         *)
RangeVisit(p) ==
    /\ At(p, "range")
    /\ \E k \in procs[p].todo :
         LET r == [procs[p] EXCEPT !.todo = @ \ {k}]
         IN  IF /\ Loaded(k)
                /\ items[k].Expiration > 0
                /\ procs[p].t > items[k].Expiration
             THEN Goto(p, [r EXCEPT !.pc = "load", !.k = k])
             ELSE Goto(p, AfterDelete(p, r))
    /\ UNCHANGED <<defaultExpiration, items, counter, onEvicted, janitor, now, ret,
                   hookCalls, panicked>>

(* cache.delete, first half: with a hook registered, Load; without one,    *)
(* safeDelete at once and nothing to tell.                                 *)
deleteLoad(p) ==
    /\ At(p, "load")
    /\ LET k == procs[p].k
       IN  IF onEvicted # Nil
           THEN /\ UNCHANGED <<items, counter>>
                /\ Goto(p, [procs[p] EXCEPT
                              !.pc = "delete",
                              !.ev = Loaded(k),
                              !.x = IF Loaded(k) THEN items[k].Object ELSE NilObject])
           ELSE /\ safeDelete(k)
                /\ Goto(p, AfterDelete(p, procs[p]))
    /\ UNCHANGED <<defaultExpiration, onEvicted, janitor, now, ret, hookCalls, panicked>>

(* cache.delete, second half: safeDelete, and the loaded value returned as *)
(* evicted when Load had found the key.                                    *)
deleteSafeDelete(p) ==
    /\ At(p, "delete")
    /\ safeDelete(procs[p].k)
    /\ LET r == [procs[p] EXCEPT
                   !.evicted = IF procs[p].ev
                               THEN Append(@, <<procs[p].k, procs[p].x>>) ELSE @]
       IN  Goto(p, AfterDelete(p, r))
    /\ UNCHANGED <<defaultExpiration, onEvicted, janitor, now, ret, hookCalls, panicked>>

(* c.onEvicted(k, v) in Delete and at the end of DeleteExpired: a call of  *)
(* the field as it is now, a panic when it is nil.                         *)
callOnEvicted(p) ==
    /\ At(p, "hook")
    /\ IF onEvicted = Nil
       THEN /\ panicked' = TRUE
            /\ UNCHANGED <<hookCalls, procs>>
       ELSE /\ hookCalls' = hookCalls (+) SetToBag({Head(procs[p].evicted)})
            /\ Goto(p, AfterDelete(p, [procs[p] EXCEPT !.evicted = Tail(@)]))
            /\ UNCHANGED panicked
    /\ UNCHANGED <<defaultExpiration, items, counter, onEvicted, janitor, now, ret>>

(* stopJanitor: the send on the stop channel is taken by the select of Run, *)
(* between two sweeps.                                                      *)
stopJanitorSend ==
    /\ janitor = "running"
    /\ At(Janitor, "idle")
    /\ janitor' = "stopped"
    /\ UNCHANGED <<defaultExpiration, items, counter, onEvicted, now, ret, hookCalls,
                   panicked, procs>>

(* The clock advances. *)
Elapse ==
    /\ now < MaxNow
    /\ now' = now + 1
    /\ UNCHANGED <<defaultExpiration, items, counter, onEvicted, janitor, ret, hookCalls,
                   panicked, procs>>

NextConcurrent ==
    \/ \E p \in Procs, k \in ConcKeys : \E x \in ConcObjects(p), d \in ConcDurations :
            Alive /\ SetCall(p, k, x, d)
    \/ \E p \in Procs, f \in Hooks \cup {Nil} : Alive /\ OnEvictedCall(p, f)
    \/ \E p \in Procs, k \in ConcKeys : \E x \in InputObjects(k), d \in ConcDurations :
            Alive /\ AddGet(p, k, x, d)
    \/ \E p \in Procs : Alive /\ AddSet(p)
    \/ \E p \in Procs, k \in ConcKeys, n \in Deltas : Alive /\ IncrementInt64Load(p, k, n)
    \/ \E p \in Procs : Alive /\ IncrementInt64Store(p)
    \/ \E p \in Procs, k \in ConcKeys : Alive /\ DeleteCall(p, k)
    \/ \E p \in Procs : Alive /\ DeleteExpiredCall(p)
    \/ Alive /\ JanitorTick
    \/ \E p \in Procs : Alive /\ RangeVisit(p)
    \/ \E p \in Procs : Alive /\ deleteLoad(p)
    \/ \E p \in Procs : Alive /\ deleteSafeDelete(p)
    \/ \E p \in Procs : Alive /\ callOnEvicted(p)
    \/ Alive /\ stopJanitorSend
    \/ Alive /\ Elapse

SpecConcurrent == Init /\ [][NextConcurrent]_vars

(* The janitor goroutine runs: its ticker goes on firing while Run is in    *)
(* its loop, and a pass it has begun goes on to its end.                    *)
JanitorStep ==
    \/ JanitorTick
    \/ RangeVisit(Janitor)
    \/ deleteLoad(Janitor)
    \/ deleteSafeDelete(Janitor)
    \/ callOnEvicted(Janitor)

SpecJanitorFair == SpecConcurrent /\ WF_vars(Alive /\ JanitorStep)

----------------------------------------------------------------------------
(* What the claims speak of. *)

(* The expiry a stored Expiration stands for.  Set stores the int64 sum of a *)
(* positive clock and a positive duration: a stored value below zero is a    *)
(* sum that wrapped, 2^TimeBits below the timestamp the entry was given.     *)
MeantExpiry(item) ==
    IF item.Expiration < 0 THEN item.Expiration + 2 ^ TimeBits ELSE item.Expiration

NeverExpires(item) == item.Expiration = 0

(* A live entry: stored, and without expiry or not past it. *)
Live(k) ==
    /\ k \in DOMAIN items
    /\ NeverExpires(items[k]) \/ now <= MeantExpiry(items[k])

StoreOps == {"Set", "Add", "Replace", "IncrementInt64", "DecrementInt64",
             "Increment", "Decrement"}
Errors == {"AlreadyExists", "NotFound", "TypeMismatch"}

----------------------------------------------------------------------------
(* C1: Get is lazy about expiry.  For a stored entry with a finite expiry E, *)
(* Get returns found = FALSE at every clock value above E and the value with *)
(* found = TRUE at every clock value up to and including E; for a key that   *)
(* is not stored it returns found = FALSE.                                   *)
C1_LazyExpirationOnGet ==
    ret.op = "Get" =>
        LET k == ret.key
        IN  /\ k \notin DOMAIN items => ~ret.found
            /\ (k \in DOMAIN items /\ ~NeverExpires(items[k])) =>
                  /\ now > MeantExpiry(items[k]) => ~ret.found
                  /\ now <= MeantExpiry(items[k]) =>
                        ret.found /\ ret.val = items[k].Object

(* Get has found an entry at the very instant of its expiry. *)
C1_Witness ==
    /\ ret.op = "Get"
    /\ ret.key \in DOMAIN items
    /\ items[ret.key].Expiration = now
    /\ ret.found

(* C2: Add fails with AlreadyExists when a live entry is stored under the key *)
(* and leaves the earlier entry in place; when the key is absent or its entry *)
(* is expired Add succeeds and has exactly the effect of Set(key, value, d).  *)
C2_Add ==
    [][ret'.op = "Add" =>
          \A k \in {ret'.key} : \A x \in InputObjects(k), d \in Durations(k) :
              Add(k, x, d) =>
                  IF Live(k)
                  THEN ret'.err = "AlreadyExists" /\ items' = items
                  ELSE ret'.err = "" /\ SetEffect(k, x, d)]_vars

(* Add has been refused on a key holding a live entry. *)
C2_Witness ==
    /\ ret.op = "Add"
    /\ ret.err = "AlreadyExists"
    /\ Live(ret.key)

(* C3: Replace fails with NotFound when the key is absent or its entry is    *)
(* expired, and otherwise has exactly the effect of Set(key, value, d).      *)
C3_Replace ==
    [][ret'.op = "Replace" =>
          \A k \in {ret'.key} : \A x \in InputObjects(k), d \in Durations(k) :
              Replace(k, x, d) =>
                  IF Live(k)
                  THEN ret'.err = "" /\ SetEffect(k, x, d)
                  ELSE ret'.err = "NotFound" /\ items' = items]_vars

(* Replace has stored a new entry, with an expiry, over a live one. *)
C3_Witness ==
    /\ ret.op = "Replace"
    /\ ret.err = ""
    /\ ret.key \in DOMAIN items
    /\ items[ret.key].Expiration > now

(* C4: an entry stored with no expiration (NoExpiration, or DefaultExpiration *)
(* on a store whose default is not positive) is found by Get, and stays in    *)
(* the store unchanged and found by Get through every step, clock ticks and   *)
(* sweeps included, that is not a Delete, a Flush or a store on its key.      *)
C4_NeverExpire ==
    [][/\ (ret'.op \in {"Set", "Add", "Replace"} /\ ret'.err = "") =>
            \A k \in {ret'.key} : \A x \in InputObjects(k) :
              \A d \in {e \in Durations(k) :
                            e = NoExpiration \/ (e = DefaultExpiration /\ defaultExpiration <= 0)} :
                ( \/ ret'.op = "Set" /\ Set(k, x, d)
                  \/ ret'.op = "Add" /\ Add(k, x, d)
                  \/ ret'.op = "Replace" /\ Replace(k, x, d) )
                => /\ k \in DOMAIN items'
                   /\ NeverExpires(items'[k])
                   /\ GetRet(k)' = [Object |-> x, found |-> TRUE]
       /\ ret'.op # "Flush" =>
            \A k \in DOMAIN items :
              ( /\ NeverExpires(items[k])
                /\ ~(ret'.key = k /\ ret'.op \in StoreOps \cup {"Delete"}) )
              => /\ k \in DOMAIN items'
                 /\ items'[k] = items[k]
                 /\ GetRet(k)' = [Object |-> items[k].Object, found |-> TRUE]]_vars

(* At the last clock value a sweep has evicted an expired entry and left an *)
(* entry without expiration in the store.                                   *)
C4_Witness ==
    /\ ret.op \in {"DeleteExpired", "janitor"}
    /\ now = MaxNow
    /\ hookCalls # EmptyBag
    /\ \E k \in DOMAIN items : NeverExpires(items[k])

(* C5: Set, Add and Replace compute the expiry from the duration: the       *)
(* store's default duration stands in for DefaultExpiration; a positive       *)
(* duration gives the expiry now + duration exactly, any other duration an    *)
(* entry that never expires.  A store built with default zero is the store    *)
(* built with the never-expire sentinel.                                      *)
C5_ExpiryComputation ==
    [][/\ newCache(0) = newCache(NoExpiration)
       /\ (ret'.op \in {"Set", "Add", "Replace"} /\ ret'.err = "") =>
            \A k \in {ret'.key} : \A x \in InputObjects(k), d \in Durations(k) :
                (Set(k, x, d) \/ Add(k, x, d) \/ Replace(k, x, d)) =>
                    LET dd == IF d = DefaultExpiration THEN defaultExpiration ELSE d
                    IN  items'[k].Expiration = IF dd > 0 THEN now + dd ELSE 0]_vars

(* C6: IncrementInt64 and DecrementInt64 fail with NotFound when the key is   *)
(* absent or its entry is expired, fail with TypeMismatch when the value is   *)
(* not an int64, and otherwise store and return the old value plus (minus) n  *)
(* in wrap-around arithmetic, the expiration left as it was.                  *)
C6_TypedIncrement ==
    [][ret'.op \in {"IncrementInt64", "DecrementInt64"} =>
          \A k \in {ret'.key} : \A n \in Deltas :
              (IncrementInt64(k, n) \/ DecrementInt64(k, n)) =>
                  IF ~Live(k) THEN ret'.err = "NotFound"
                  ELSE IF items[k].Object.kind # "int64" THEN ret'.err = "TypeMismatch"
                  ELSE LET m  == IF ret'.op = "IncrementInt64" THEN n ELSE 0 - n
                           nv == WrapSigned(items[k].Object.v + m, WordBits)
                       IN  /\ ret'.err = ""
                           /\ ret'.val = Int64(nv)
                           /\ items'[k] = Item(Int64(nv), items[k].Expiration)]_vars

(* C7: when Add, Replace or an Increment or Decrement returns an error, the  *)
(* entries, the counter and the hook are what they were before the call and  *)
(* the hook is not called.                                                   *)
C7_StateUnchangedOnError ==
    [][ret'.err \in Errors =>
          /\ items' = items
          /\ counter' = counter
          /\ onEvicted' = onEvicted
          /\ hookCalls' = EmptyBag]_vars

(* Replace has failed on a key whose expired entry is still stored. *)
C7_Witness ==
    /\ ret.op = "Replace"
    /\ ret.err = "NotFound"
    /\ ret.key \in DOMAIN items

(* C8: with a hook registered, Delete of a stored key calls the hook exactly *)
(* once, with that key and the value it held; Delete of a key that is not    *)
(* stored calls it zero times; Set, Add, Replace, Increment and Decrement    *)
(* never call it.                                                            *)
C8_EvictionHook ==
    [][/\ \A k \in Keys :
            (ret'.op = "Delete" /\ ret'.key = k) =>
                hookCalls' = IF onEvicted # Nil /\ k \in DOMAIN items
                             THEN SetToBag({<<k, items[k].Object>>})
                             ELSE EmptyBag
       /\ ret'.op \in StoreOps => hookCalls' = EmptyBag]_vars

(* Delete has called the hook once. *)
C8_Witness ==
    /\ ret.op = "Delete"
    /\ onEvicted # Nil
    /\ BagCardinality(hookCalls) = 1

(* C9: Items returns the mapping of exactly the live entries of the store,  *)
(* each with its value and expiration, in every state, and removes nothing. *)
C9_ItemsReturnsLiveEntries ==
    [][ret'.op = "Items" =>
          /\ ret'.err = ""
          /\ ret'.m = [k \in {x \in DOMAIN items : Live(x)} |-> items[k]]
          /\ items' = items]_vars

(* C10: after DeleteExpired has returned, Items returns a mapping in which  *)
(* no entry has an expiry at or before the current time.                    *)
C10_SweepCompleteness ==
    [][(ret.op = "DeleteExpired" /\ ret'.op = "Items") =>
          /\ ret'.err = ""
          /\ \A k \in DOMAIN ret'.m :
                ~(ret'.m[k].Expiration > 0 /\ ret'.m[k].Expiration <= now')]_vars

(* C11: Flush removes every entry of the store, whatever its expiration, so *)
(* that Get then finds no key, and does not call the hook, registered or    *)
(* not.                                                                     *)
C11_Flush ==
    [][ret'.op = "Flush" =>
          /\ items' = <<>>
          /\ \A k \in Keys : ~GetRet(k)'.found
          /\ hookCalls' = EmptyBag
          /\ onEvicted' = onEvicted]_vars

(* Flush has returned with a hook registered: the store is empty and the   *)
(* hook was not called.                                                    *)
C11_Witness ==
    /\ ret.op = "Flush"
    /\ onEvicted # Nil
    /\ items = <<>>
    /\ hookCalls = EmptyBag

(* C12: Get, GetWithExpiration and ItemCount leave the entries and the      *)
(* counter as they were, and ItemCount returns the counter: an expired      *)
(* entry stays stored and counted after Get has reported it not found.      *)
C12_ReadsDoNotReclaim ==
    [][ret'.op \in {"Get", "GetWithExpiration", "ItemCount"} =>
          /\ items' = items
          /\ counter' = counter
          /\ ret'.op = "ItemCount" => ret'.n = counter]_vars

(* Get has reported an entry not found that is expired and still stored,   *)
(* and the counter counts it.                                              *)
C12_Witness ==
    /\ ret.op = "Get"
    /\ ~ret.found
    /\ ret.key \in DOMAIN items
    /\ now > items[ret.key].Expiration
    /\ counter = 1
    /\ DOMAIN items = {ret.key}

(* C13: IncrementInt64(k, n) stores and returns the old value plus n with   *)
(* the expiration kept; DecrementInt64(k, n) as the very next step stores   *)
(* the value the entry had before the increment, the expiration kept; and   *)
(* either of them, when it fails, leaves the entry as it was.               *)
C13_RoundTrip ==
    [][/\ (ret'.op = "IncrementInt64" /\ ret'.err = "") =>
            \A k \in {ret'.key} : \A n \in Deltas :
                IncrementInt64(k, n) =>
                    /\ ret'.val = Int64(WrapSigned(items[k].Object.v + n, WordBits))
                    /\ items'[k] = Item(ret'.val, items[k].Expiration)
       /\ (ret.op = "IncrementInt64" /\ ret.err = "" /\
           ret'.op = "DecrementInt64" /\ ret'.key = ret.key) =>
            \A k \in {ret'.key} : \A n \in Deltas :
                DecrementInt64(k, n) =>
                    /\ ret'.err = ""
                    /\ items'[k] = Item(Int64(WrapSigned(ret.val.v - n, WordBits)),
                                        items[k].Expiration)
       /\ (ret'.op \in {"IncrementInt64", "DecrementInt64"} /\ ret'.err # "") =>
            items' = items]_vars

(* DecrementInt64 has brought an entry with an expiry back to the greatest *)
(* int64, from the least: the increment it undoes had overflowed.          *)
C13_Witness ==
    /\ ret.op = "DecrementInt64"
    /\ ret.err = ""
    /\ ret.val = Int64(2 ^ (WordBits - 1) - 1)
    /\ items[ret.key].Expiration > 0

(* C14: one stored entry never brings about two calls of the hook.  In a    *)
(* run without janitor in which no caller stores, the store holds at most   *)
(* one entry when the callers begin, the last that main stored under the    *)
(* key: whatever Delete and DeleteExpired do concurrently, the hook is      *)
(* called at most once.                                                     *)
C14_HookAtMostOnce ==
    ( /\ janitor = "none"
      /\ \A c \in Callers : procs[c].op \notin {"Set", "Add", "IncrementInt64"} )
    => BagCardinality(hookCalls) <= 1

(* C15: no sequence of public operations reaches a panic. *)
C15_NoPanic == ~panicked

(* C16: the background sweep takes steps only while the janitor is running: *)
(* a store built with a cleanup interval that is not positive has no        *)
(* janitor and never gets one, and once the stop is taken the janitor is    *)
(* out of its sweep and takes no further step.                              *)
C16_JanitorLifecycle ==
    [][/\ \A c \in Configs :
              newJanitor(c[2]) = IF c[2] > 0 THEN "running" ELSE "none"
       /\ procs'[Janitor] # procs[Janitor] => janitor = "running"
       /\ janitor = "none" => janitor' = "none"
       /\ janitor = "stopped" => janitor' = "stopped"
       /\ janitor' = "stopped" => procs'[Janitor] = Idle]_vars

(* The janitor is stopped and out of its sweep, the callers have returned  *)
(* and an expired entry stays in the store.                                *)
C16_Witness ==
    /\ janitor = "stopped"
    /\ procs[Janitor] = Idle
    /\ \A c \in Callers : At(c, "done")
    /\ \E k \in DOMAIN items : items[k].Expiration > 0 /\ now > items[k].Expiration

(* C17: Add is a get followed by a set with nothing to hold them together: *)
(* an Add whose get found no live entry stores its entry and returns nil    *)
(* whatever has been stored under the key since, so two concurrent Adds of  *)
(* one key can both succeed, the later set overwriting the earlier.         *)
C17_AddNotAtomic ==
    [][\A p \in Callers :
          (procs[p].pc = "set" /\ procs'[p] # procs[p]) =>
              /\ items'[procs[p].k] = Item(procs[p].x, Expiry(procs[p].d))
              /\ procs'[p] = [Idle EXCEPT !.pc = "done", !.op = "Add", !.res = ""]]_vars

(* Both callers have returned from Add of the key with nil. *)
C17_Witness ==
    /\ \A c \in Callers : procs[c] = [Idle EXCEPT !.pc = "done", !.op = "Add", !.res = ""]
    /\ \A k \in ConcKeys : k \in DOMAIN items

(* C18: IncrementInt64 is a Load followed by a Store with nothing to hold   *)
(* them together: the value it stores is the value it loaded plus n,        *)
(* whatever has been stored under the key since, so of two concurrent       *)
(* increments, or an increment and a Set, one update can be lost.           *)
C18_IncrementNotAtomic ==
    [][\A p \in Callers :
          /\ (procs[p].pc = "idle" /\ procs'[p].pc = "store") =>
                \E n \in Deltas :
                    /\ procs'[p].x = Int64(WrapSigned(items[procs'[p].k].Object.v + n,
                                                        WordBits))
                    /\ procs'[p].e = items[procs'[p].k].Expiration
          /\ (procs[p].pc = "store" /\ procs'[p] # procs[p]) =>
                /\ items'[procs[p].k] = Item(procs[p].x, procs[p].e)
                /\ procs'[p] = [Idle EXCEPT !.pc = "done", !.op = "IncrementInt64",
                                            !.res = ""]]_vars

(* Both callers have returned from IncrementInt64(k, 1) without error on    *)
(* the value main stored, and the entry holds that value plus one.          *)
C18_Witness ==
    /\ \A c \in Callers :
          procs[c] = [Idle EXCEPT !.pc = "done", !.op = "IncrementInt64", !.res = ""]
    /\ \E k \in ConcKeys :
          /\ k \in DOMAIN items
          /\ \E x \in InputObjects(k), n \in Deltas :
                items[k].Object = Int64(WrapSigned(x.v + n, WordBits))

C20_SweepRemovesOnlyExpired ==
    [][\A p \in Procs :
          ( /\ procs[p].op \in {"DeleteExpired", "janitor"}
            /\ procs'[p] # procs[p] )
          => \A k \in DOMAIN items \ DOMAIN items' : ~Live(k)]_vars
(* C21: the value the hook is told is the value removed.  When c.delete    *)
(* removes an entry and reports the key as evicted, in Delete or in a      *)
(* sweep, the value it hands on for the hook is the value of the entry     *)
(* that its Delete took out of the store, whatever Set stored meanwhile:   *)
(* stated for the runs where the other callers call nothing but Set.       *)
C21_HookValueIsRemovedValue ==
    [][\A p \in Procs :
          (/\ procs[p].pc = "delete"
           /\ procs'[p] # procs[p]
           /\ procs[p].ev
           /\ Loaded(procs[p].k)
           /\ \A c \in Callers \ {p} : procs[c].op \in {"", "Set"})
          => items[procs[p].k].Object = procs[p].x]_vars

(* C22: the counter never under-counts.  In a store built empty, with a    *)
(* hook registered or not, after every operation ItemCount, the counter,   *)
(* is at least the number of keys stored, and no operation takes more from *)
(* the counter than it holds: the counter does not wrap below zero.        *)
C22_CounterNeverUnderCounts ==
    [][LET deletes == IF ret'.op = "Delete" THEN 1
                      ELSE IF ret'.op \in {"DeleteExpired", "janitor", "Flush"}
                      THEN Cardinality(DOMAIN items \ DOMAIN items') ELSE 0
       IN  /\ counter' >= Cardinality(DOMAIN items')
           /\ counter - deletes >= 0]_vars

(* C23: scan, then notify.  In a pass of DeleteExpired, by a caller or by   *)
(* the janitor, the hook is called only once the Range is over, each call  *)
(* is for the pair at the head of the pairs the pass has kept, and every   *)
(* entry the pass removes with a hook registered is kept for the hook as   *)
(* the pair of its key and the value removed.                              *)
C23_ScanThenNotify ==
    [][\A p \in Procs :
          (procs[p].op \in {"DeleteExpired", "janitor"} /\ procs'[p] # procs[p])
          => /\ procs[p].pc = "hook"
                => /\ procs[p].todo = {}
                   /\ hookCalls' = hookCalls (+) SetToBag({Head(procs[p].evicted)})
                   /\ procs'[p].pc = "hook" => procs'[p].evicted = Tail(procs[p].evicted)
             /\ procs[p].pc \in {"range", "load", "delete"} => hookCalls' = hookCalls
             /\ (procs[p].pc = "delete" /\ Loaded(procs[p].k) /\ onEvicted # Nil)
                => procs'[p].evicted =
                      Append(procs[p].evicted,
                             <<procs[p].k, items[procs[p].k].Object>>)]_vars

(* An entry that is stored and past its expiry. *)
ExpiredStored(k) == k \in DOMAIN items /\ ~Live(k)

(* C24: expired entries are reclaimed in the end.  With the janitor running *)
(* and its ticker firing, an entry that is stored and past its expiry is    *)
(* removed or overwritten by a live entry later on, also when it came into  *)
(* the store in the middle of a pass; unless the janitor is stopped or the  *)
(* program has ended in a panic.                                            *)
C24_EventualReclamation ==
    \A k \in ConcKeys :
        (janitor = "running" /\ ExpiredStored(k))
        ~> (~ExpiredStored(k) \/ janitor # "running" \/ panicked)

(* The janitor has removed the key in this pass and is at the calls of the  *)
(* hook when an entry that is already past its expiry comes into the store. *)
C24_Witness ==
    /\ janitor = "running"
    /\ At(Janitor, "hook")
    /\ ExpiredStored("a")

(* C25: the read paths agree on which entries are live.  An Increment or   *)
(* Decrement, typed or not, returns NotFound for a key exactly when Get at *)
(* that moment returns found = false for it, and a DeleteExpired pass      *)
(* removes exactly the stored keys for which Get returns found = false,    *)
(* whatever duration the entry was stored with.                            *)
C25_ReadPathsAgree ==
    [][/\ ret'.op \in {"IncrementInt64", "DecrementInt64", "Increment", "Decrement"}
          => \A k \in {ret'.key} : (ret'.err = "NotFound") <=> ~GetRet(k).found
       /\ ret'.op \in {"DeleteExpired", "janitor"}
          => \A k \in DOMAIN items : (k \notin DOMAIN items') <=> ~GetRet(k).found]_vars

====
